---- MODULE Spec2Model ----
(***************************************************************************)
(* bookshelf-advanced-serialization: the plugin's Model.toJSON,            *)
(* Model.related and Collection.serialize, as a state machine.             *)
(*                                                                         *)
(* A model instance is a number of Models.  The database behind the        *)
(* instances is a small comment thread: row A has the children B and C,    *)
(* B and C have the parent A, and A has no parent (Bookshelf then hands    *)
(* out an empty model, Bookshelf issue 753).  One top-level toJSON call is *)
(* made on instance 1; every promise callback of the plugin is one action. *)
(***************************************************************************)
EXTENDS Integers, Sequences, FiniteSets, TLC

\* ------------------------------------------------------------ bounds
MaxModels == 5
MaxMalformed == 1
MaxFailures == 1

Models == 1..MaxModels
\* The instance the caller holds: the first one.
Root == CHOOSE m \in Models : \A other \in Models : m <= other

\* ------------------------------------------------------------ the data
Rows == {"A", "B", "C"}
NoRow == "none"
TableName(row) == "comments"
TableNames == {"comments"}

RelationNames == {"parent", "children"}
AttributeNames == {"id", "content", "artistName"}

\* What the database holds for a relation of a row: the rows of the related
\* models, in order.  "empty" is the empty model of Bookshelf issue 753.
RelatedRows(row, relationName) ==
  IF relationName = "parent"
    THEN (IF row \in {"B", "C"} THEN <<"A">> ELSE <<"empty">>)
    ELSE (IF row = "A" THEN <<"B", "C">> ELSE IF row = "B" THEN <<"empty">> ELSE <<>>)

IsCollection(relationName) == relationName = "children"

RowAttributes(row) ==
  IF row \in Rows THEN {"id", "content"} ELSE {}

Accessors == {"elephant1", "antelope99"}
NoAccessor == "undefined"

Owner(row) == IF row \in {"A", "B"} THEN "elephant1"
              ELSE IF row = "C" THEN "antelope99" ELSE "nobody"

\* ------------------------------------------------------------ values
\* A list as the code sees it: Array.isArray and the items.
ArrayOf(s) == [isArray |-> TRUE, items |-> s]
NotArray == [isArray |-> FALSE, items |-> <<>>]

RECURSIVE SeqToSet(_)
SeqToSet(s) == IF s = <<>> THEN {} ELSE {Head(s)} \cup SeqToSet(Tail(s))

Contains(s, x) == \E i \in 1..Len(s) : s[i] = x

RECURSIVE Uniq(_)
Uniq(s) ==
  IF s = <<>> THEN <<>>
  ELSE LET front == Uniq(SubSeq(s, 1, Len(s) - 1)) IN
       IF Contains(front, s[Len(s)]) THEN front ELSE Append(front, s[Len(s)])

RECURSIVE Filter(_, _)
Filter(s, keep) ==
  IF s = <<>> THEN <<>>
  ELSE IF Head(s) \in keep THEN <<Head(s)>> \o Filter(Tail(s), keep)
  ELSE Filter(Tail(s), keep)

\* lodash _.intersection(a, b): the unique items of a that are in b, in a's order.
Intersection(a, b) == Uniq(Filter(a, SeqToSet(b)))

\* lodash _.difference(a, b): the items of a that are not in b, in a's order.
Difference(a, b) == Filter(a, SeqToSet(a) \ SeqToSet(b))

\* ------------------------------------------------------------ configuration
Roles == {"author", "reader", "anonymous"}
Labels == {"self", "peer"}

\* A model class's roleDeterminer, as in the examples: who owns the row.
roleDeterminer(row, accessor) ==
  IF accessor = Owner(row) THEN "author"
  ELSE IF accessor \in Accessors THEN "reader"
  ELSE "anonymous"

\* rolesToVisibleProperties of the model class.
VisibleToAll ==
  [isPlainObject |-> TRUE,
   byRole |-> [r \in Roles |->
     IF r = "author" THEN ArrayOf(<<"id", "content", "artistName", "parent", "children">>)
     ELSE IF r = "reader" THEN ArrayOf(<<"id", "children">>)
     ELSE ArrayOf(<<>>)]]
VisibleToAuthor ==
  [isPlainObject |-> TRUE,
   byRole |-> [r \in Roles |->
     IF r = "author" THEN ArrayOf(<<"id", "parent", "children">>)
     ELSE IF r = "reader" THEN ArrayOf(<<>>)
     ELSE NotArray]]
NoVisibilityTable ==
  [isPlainObject |-> FALSE, byRole |-> [r \in Roles |-> NotArray]]

\* An entry options.<table option>[tableName]: falsy, an array, an object
\* indexed by context designation, or something else.
NoLists == [l \in Labels |-> NotArray]
EntryFalsy == [kind |-> "falsy", list |-> NotArray, byDesignation |-> NoLists]
EntryArray(s) == [kind |-> "array", list |-> ArrayOf(s), byDesignation |-> NoLists]
EntryObject(self, peer) ==
  [kind |-> "object", list |-> NotArray,
   byDesignation |-> [l \in Labels |-> IF l = "self" THEN self ELSE peer]]
EntryOther == [kind |-> "other", list |-> NotArray, byDesignation |-> NoLists]

\* options.contextSpecificVisibleProperties / options.ensureRelationsLoaded:
\* falsy, a truthy non-object, or an object indexed by table name.
TableFalsy == [kind |-> "falsy", byTable |-> [t \in TableNames |-> EntryFalsy]]
TableNonObject == [kind |-> "nonObject", byTable |-> [t \in TableNames |-> EntryFalsy]]
TableOf(entry) == [kind |-> "object", byTable |-> [t \in TableNames |-> entry]]

ContextTables ==
  { TableFalsy, TableNonObject, TableOf(EntryFalsy), TableOf(EntryOther),
    TableOf(EntryArray(<<"content", "id">>)),
    TableOf(EntryArray(<<"secret">>)),
    TableOf(EntryObject(ArrayOf(<<"id", "parent", "children">>), ArrayOf(<<"id", "content">>))),
    TableOf(EntryObject(ArrayOf(<<"content", "parent", "children">>), ArrayOf(<<>>))),
    TableOf(EntryObject(ArrayOf(<<"id", "children">>), NotArray)) }

EnsureTables ==
  { TableFalsy, TableNonObject, TableOf(EntryFalsy), TableOf(EntryOther),
    TableOf(EntryArray(<<"parent", "children">>)),
    TableOf(EntryArray(<<"children", "children">>)),
    TableOf(EntryObject(ArrayOf(<<"parent", "children">>), ArrayOf(<<"children">>))),
    TableOf(EntryObject(ArrayOf(<<"children">>), NotArray)) }

\* options.contextDesignator: absent, a truthy non-function, or a function of
\* (tableName, relationChain, id).
ContextDesignators == {"absent", "notFunction", "byChain", "stranger"}

contextDesignator(which, tableName, relationChain, id) ==
  IF which = "byChain"
    THEN (IF relationChain = <<>> THEN "self" ELSE "peer")
    ELSE "stranger"

\* The malformed parts of an options object: what makes toJSON fail with a
\* SanityError on some model.
MalformedTable(table, designator) ==
  LET entry == table.byTable["comments"] IN
  IF table.kind = "nonObject" \/ (table.kind = "object" /\ entry.kind = "other") THEN 1
  ELSE IF table.kind = "object" /\ entry.kind = "object"
            /\ (\/ designator = "absent"
                \/ \E l \in Labels : ~entry.byDesignation[l].isArray)
    THEN 1
  ELSE 0

Malformed(o) ==
  MalformedTable(o.contextSpecificVisibleProperties, o.contextDesignator)
  + MalformedTable(o.ensureRelationsLoaded, o.contextDesignator)
  + (IF o.contextDesignator \in {"notFunction", "stranger"} THEN 1 ELSE 0)

\* ------------------------------------------------------------ state
VARIABLES
  plugin,                   \* the options the plugin was generated with
  options,                  \* the options object of the toJSON call
  modelClass,               \* roleDeterminer / rolesToVisibleProperties of the class
  row,                      \* model instance -> row it stands for, NoRow if unused
  attributes,               \* model.attributes
  relations,                \* model.relations
  modelAccessor,            \* model._accessor
  accessedAsRelationChain,  \* model._accessedAsRelationChain
  pc,                       \* where the toJSON call on the model stands
  call,                     \* the locals of the toJSON call on the model
  result,                   \* what the toJSON promise of the model resolved to
  log,                      \* what the call invoked: evaluators, handlers, loads
  database                  \* the data-access collaborator: "up", or "flaky" (loads may fail)

vars == <<plugin, options, modelClass, row, attributes, relations, modelAccessor,
          accessedAsRelationChain, pc, call, result, log, database>>

\* A relation of a model: whether it is on model.relations, and its models.
NotLoaded == [loaded |-> FALSE, models |-> <<>>]
Loaded(ms) == [loaded |-> TRUE, models |-> ms]
NoRelations == [n \in RelationNames |-> NotLoaded]

\* Attribute values: the empty plain object, null, the value that the setting
\* handler of the tests stores, and the value that a row holds in a column.
\* Row C holds an empty plain object in its content.
EmptyObject == <<>>
Null == <<"null">>
BobDylan == <<"Bob Dylan">>
StoredValue(r, a) == IF r = "C" /\ a = "content" THEN EmptyObject ELSE <<r, a>>

AttributesOf(r) == [a \in RowAttributes(r) |-> StoredValue(r, a)]

\* The locals of a call before it starts.
Undefined == "undefined"
NoDesignation == [state |-> "none", label |-> Undefined]
NoPending == [n \in RelationNames |-> 0]
NoCall ==
  [accessor |-> NoAccessor, role |-> Undefined, visibleProperties |-> NotArray,
   contextDesignation |-> NoDesignation, ultimatelyVisibleProperties |-> NotArray,
   pending |-> NoPending, error |-> "none"]

\* Serialization results.  A relation slot of an object holds undefined, null,
\* the object of one model, or the array of the objects of some models.
NoResult == [kind |-> "none", attributes |-> <<>>, relations |-> <<>>]
ResultUndefined == [kind |-> "undefined", attributes |-> <<>>, relations |-> <<>>]
ResultNull == [kind |-> "null", attributes |-> <<>>, relations |-> <<>>]
ResultObject(attrs, rels) == [kind |-> "object", attributes |-> attrs, relations |-> rels]

NoLog ==
  [roleDeterminer |-> <<>>, contextDesignator |-> <<>>, handleEnsureRelation |-> <<>>,
   load |-> <<>>, failed |-> <<>>, console |-> <<>>, deleted |-> {}]

\* Models whose row is allocated.
Allocated == {m \in Models : row[m] # NoRow}

\* The instances that the object graph holds at the start: the root alone, or
\* the root with its relations already loaded (through related(), which stamps
\* them, or set on model.relations by hand, which does not).  A model without
\* attributes may hold the empty collection of its children.
Preloads == {"nothing", "related", "byHand"}

InitRelations(rootRow, preload, m) ==
  IF m # Root \/ preload = "nothing" THEN NoRelations
  ELSE IF rootRow \notin Rows
    THEN [n \in RelationNames |-> IF n = "children" THEN Loaded(<<>>) ELSE NotLoaded]
  ELSE IF rootRow = "A"
    THEN [n \in RelationNames |-> IF n = "children" THEN Loaded(<<2, 3>>) ELSE NotLoaded]
    ELSE [n \in RelationNames |-> IF n = "parent" THEN Loaded(<<2>>) ELSE NotLoaded]

InitRow(rootRow, preload, m) ==
  IF m = Root THEN rootRow
  ELSE IF preload = "nothing" \/ rootRow \notin Rows THEN NoRow
  ELSE IF rootRow = "A"
    THEN (IF m = 2 THEN "B" ELSE IF m = 3 THEN "C" ELSE NoRow)
    ELSE (IF m = 2 THEN "A" ELSE NoRow)

InitChain(rootRow, preload, m) ==
  IF m = Root \/ preload # "related" \/ InitRow(rootRow, preload, m) = NoRow THEN <<>>
  ELSE IF rootRow = "A" THEN <<"children">> ELSE <<"parent">>

OptionsSet ==
  [contextSpecificVisibleProperties : ContextTables,
   ensureRelationsLoaded : EnsureTables,
   contextDesignator : ContextDesignators,
   accessor : {NoAccessor, "antelope99"},
   omitNew : {"unset", "false"}]

PluginSet ==
  [handleEnsureRelation : {"default", "custom"},
   ensureRelationsVisibleAndInvisible : BOOLEAN,
   defaultOmitNew : {"unset", "true"},
   nodeEnv : {"development"}]

DefaultPlugin ==
  [handleEnsureRelation |-> "custom", ensureRelationsVisibleAndInvisible |-> FALSE,
   defaultOmitNew |-> "unset", nodeEnv |-> "development"]

\* The plugin with the handler of the tests that sets an attribute.
SetterPlugin ==
  [handleEnsureRelation |-> "setter", ensureRelationsVisibleAndInvisible |-> FALSE,
   defaultOmitNew |-> "unset", nodeEnv |-> "development"]

FlakyPlugin ==
  [handleEnsureRelation |-> "default", ensureRelationsVisibleAndInvisible |-> FALSE,
   defaultOmitNew |-> "unset", nodeEnv |-> "development"]

ModelClasses ==
  { [hasRoleDeterminer |-> TRUE, rolesToVisibleProperties |-> VisibleToAll],
    [hasRoleDeterminer |-> TRUE, rolesToVisibleProperties |-> VisibleToAuthor],
    [hasRoleDeterminer |-> TRUE, rolesToVisibleProperties |-> NoVisibilityTable],
    [hasRoleDeterminer |-> FALSE, rolesToVisibleProperties |-> VisibleToAll] }

\* The misconfigured parts of a model class.
Broken(c) ==
  (IF c.hasRoleDeterminer THEN 0 ELSE 1)
  + (IF c.rolesToVisibleProperties.isPlainObject THEN 0 ELSE 1)

\* The starting states: every well-formed configuration over every shape of
\* the object graph, and the configurations with up to MaxMalformed
\* misconfigured parts over one shape.
Init ==
  \E rootRow \in {"A", "B", "empty"}, preload \in Preloads :
    /\ plugin \in PluginSet \cup {SetterPlugin}
    /\ options \in OptionsSet
    /\ modelClass \in ModelClasses
    /\ database \in {"up", "flaky"}
    /\ plugin = SetterPlugin =>
         /\ options.accessor = NoAccessor
         /\ database = "up"
         /\ preload = "nothing"
    /\ database = "flaky" =>
         /\ plugin = FlakyPlugin
         /\ options.accessor = NoAccessor
         /\ options.ensureRelationsLoaded.kind = "object"
         /\ modelClass.rolesToVisibleProperties = VisibleToAll
         /\ preload = "nothing"
    /\ Malformed(options) + Broken(modelClass) <= MaxMalformed
    /\ Malformed(options) + Broken(modelClass) > 0 =>
         /\ plugin = DefaultPlugin
         /\ rootRow = "A"
         /\ preload = "related"
         /\ options.omitNew = "unset"
    /\ rootRow = "empty" => preload \in {"nothing", "byHand"}
    /\ options.accessor # NoAccessor => plugin = DefaultPlugin
    /\ plugin.defaultOmitNew = "true" =>
         /\ plugin.handleEnsureRelation = "custom"
         /\ ~plugin.ensureRelationsVisibleAndInvisible
    /\ options.omitNew = "false" => plugin.defaultOmitNew = "true" /\ rootRow = "empty"
    /\ row = [m \in Models |-> InitRow(rootRow, preload, m)]
    /\ attributes = [m \in Models |-> AttributesOf(InitRow(rootRow, preload, m))]
    /\ relations = [m \in Models |-> InitRelations(rootRow, preload, m)]
    /\ modelAccessor = [m \in Models |->
         IF m = Root \/ (preload = "related" /\ InitRow(rootRow, preload, m) # NoRow)
           THEN "elephant1" ELSE NoAccessor]
    /\ accessedAsRelationChain = [m \in Models |-> InitChain(rootRow, preload, m)]
    /\ pc = [m \in Models |-> "idle"]
    /\ call = [m \in Models |-> NoCall]
    /\ result = [m \in Models |-> NoResult]
    /\ log = [m \in Models |-> NoLog]

\* ------------------------------------------------------------ toJSON, step by step
\* options.omitNew takes priority, then the plugin's defaultOmitNew.
OmitNew ==
  IF options.omitNew # "unset" THEN options.omitNew = "true"
  ELSE plugin.defaultOmitNew = "true"

\* Bookshelf's isNew(): the model has no id.
isNew(m) == "id" \notin DOMAIN attributes[m]

\* A toJSON without the sanity checks at its head.
Unchecked(m) == "none"

\* The sanity checks at the head of toJSON; "none" when they pass.
SanityCheck(m) ==
  IF ~modelClass.hasRoleDeterminer
    THEN "roleDeterminer function was not defined"
  ELSE IF ~modelClass.rolesToVisibleProperties.isPlainObject
    THEN "rolesToVisibleProperties was not defined"
  ELSE "none"

\* The accessor stamped on the model, whatever the options.
StampedAccessor(m) == modelAccessor[m]

\* var accessor = options.accessor || this._accessor
AccessorFor(m) ==
  IF options.accessor # NoAccessor THEN options.accessor ELSE modelAccessor[m]

\* A toJSON that serializes unsaved models like the others.
EnterUnsaved(m) == IF SanityCheck(m) # "none" THEN "threw" ELSE "role"

\* The synchronous part of a toJSON call on m: it throws, or returns early for
\* an unsaved model under omitNew (Bookshelf serializes that one as null), or
\* invokes the roleDeterminer and waits for the role.
EnterPc(m) ==
  IF SanityCheck(m) # "none" THEN "threw"
  ELSE IF OmitNew /\ isNew(m) THEN "resolved"
  ELSE "role"

EnterCall(m) ==
  IF EnterPc(m) = "threw" THEN [NoCall EXCEPT !.error = SanityCheck(m)]
  ELSE IF EnterPc(m) = "role" THEN [NoCall EXCEPT !.accessor = AccessorFor(m)]
  ELSE NoCall

EnterResult(m) == IF EnterPc(m) = "resolved" THEN ResultNull ELSE NoResult

EnterLog(m) ==
  IF EnterPc(m) = "role"
    THEN [log[m] EXCEPT !.roleDeterminer = Append(@, AccessorFor(m))]
    ELSE log[m]

Config == <<plugin, options, modelClass, database>>
Graph == <<row, attributes, relations, modelAccessor, accessedAsRelationChain>>

\* The caller invokes toJSON on the root model.
ToJSON ==
  /\ pc[Root] = "idle"
  /\ pc' = [pc EXCEPT ![Root] = EnterPc(Root)]
  /\ call' = [call EXCEPT ![Root] = EnterCall(Root)]
  /\ result' = [result EXCEPT ![Root] = EnterResult(Root)]
  /\ log' = [log EXCEPT ![Root] = EnterLog(Root)]
  /\ UNCHANGED <<Config, Graph>>

\* Whether the promise built from the table waits for the context designation.
NeedsDesignation(table, tableName) ==
  table.kind = "object" /\ table.byTable[tableName].kind = "object"

\* getContextDesignation: what the call holds once it has asked for the
\* designation.  A designator function has been invoked; its promise is
\* pending if a lookup of the call is to wait on it, and nothing observes it
\* otherwise.  Without a function the designation is undefined.
getContextDesignation(m) ==
  IF options.contextDesignator = "absent"
    THEN [state |-> "resolved", label |-> Undefined]
    ELSE [state |-> IF \/ NeedsDesignation(options.contextSpecificVisibleProperties,
                                           TableName(row[m]))
                       \/ NeedsDesignation(options.ensureRelationsLoaded,
                                           TableName(row[m]))
                      THEN "pending" ELSE "resolved",
          label |-> contextDesignator(options.contextDesignator, TableName(row[m]),
                                      accessedAsRelationChain[m], row[m])]

\* Checks on the shape of options.<name> alone, whatever the contextDesignator.
TableShapeCheck(name, table, tableName) ==
  IF table.kind = "falsy" THEN "none"
  ELSE IF table.kind = "nonObject" THEN name \o " must be an object"
  ELSE IF table.byTable[tableName].kind = "other"
    THEN name \o "[tableName] must be an array or an object"
  ELSE "none"

\* Checks on the entry of options.<name> alone, taking anything that is no
\* object for no option.
TableEntryCheck(name, table, tableName) ==
  IF table.kind # "object" THEN "none"
  ELSE IF table.byTable[tableName].kind = "object" /\ options.contextDesignator = "absent"
    THEN "options must contain an contextDesignator function"
  ELSE IF table.byTable[tableName].kind = "other"
    THEN name \o "[tableName] must be an array or an object"
  ELSE "none"

\* The checks on options.<name> made when its promise is built; "none" when
\* they pass.
TableCheck(name, table, tableName) ==
  IF table.kind = "falsy" THEN "none"
  ELSE IF table.kind = "nonObject" THEN name \o " must be an object"
  ELSE IF table.byTable[tableName].kind = "object" /\ options.contextDesignator = "absent"
    THEN "options must contain an contextDesignator function"
  ELSE IF table.byTable[tableName].kind = "other"
    THEN name \o "[tableName] must be an array or an object"
  ELSE "none"

\* A first .then that finds nothing wrong with the role's list or the options.
NoRoleError(m, visibleProperties) == "none"

\* The first .then of toJSON: the role is known.
RoleError(m, visibleProperties) ==
  IF ~visibleProperties.isArray
    THEN "rolesToVisibleProperties does not contain array of visible properties for role"
  ELSE IF visibleProperties.items = <<>> THEN "none"
  ELSE IF options.contextDesignator = "notFunction"
    THEN "contextDesignator must be a function"
  ELSE TableCheck("contextSpecificVisibleProperties",
                  options.contextSpecificVisibleProperties, TableName(row[m]))

\* A call that asks for the designation whatever the role's list holds.
DesignationAskedAlways(visibleProperties) == options.contextDesignator # "notFunction"

\* The call gets as far as getContextDesignation: the role's list is an array
\* and is not empty.
DesignationAsked(visibleProperties) ==
  /\ visibleProperties.isArray
  /\ visibleProperties.items # <<>>
  /\ options.contextDesignator # "notFunction"

RoleResolved(m) ==
  /\ pc[m] = "role"
  /\ LET role == roleDeterminer(row[m], call[m].accessor)
         visibleProperties == modelClass.rolesToVisibleProperties.byRole[role]
         error == RoleError(m, visibleProperties)
         asked == DesignationAsked(visibleProperties)
         designation == IF asked THEN getContextDesignation(m) ELSE NoDesignation
     IN /\ call' = [call EXCEPT ![m].role = role,
                                ![m].visibleProperties = visibleProperties,
                                ![m].contextDesignation = designation,
                                ![m].error = error]
        /\ log' = [log EXCEPT ![m].contextDesignator =
                     IF asked /\ options.contextDesignator # "absent"
                       THEN Append(@, designation.label) ELSE @]
        /\ pc' = [pc EXCEPT ![m] =
                     IF error # "none" THEN "rejected"
                     ELSE IF visibleProperties.items = <<>> THEN "resolved"
                     ELSE "context"]
        /\ result' = [result EXCEPT ![m] =
                     IF error = "none" /\ visibleProperties.items = <<>>
                       THEN ResultUndefined ELSE @]
  /\ UNCHANGED <<Config, Graph>>

\* The promise returned by the contextDesignator function resolves.
DesignationResolved(m) ==
  /\ pc[m] \in {"context", "names"}
  /\ call[m].contextDesignation.state = "pending"
  /\ call' = [call EXCEPT ![m].contextDesignation.state = "resolved"]
  /\ UNCHANGED <<Config, Graph, pc, result, log>>

\* A lookup that takes a designation without an array for the empty list.
DesignatedOrEmpty(entry, designation) ==
  IF designation \in Labels /\ entry.byDesignation[designation].isArray
    THEN entry.byDesignation[designation]
    ELSE ArrayOf(<<>>)

\* A lookup that reads the entry of the top-level model, whatever the designation.
DesignatedSelf(entry, designation) == entry.byDesignation["self"]

\* table[tableName][designation], undefined when the designation is no key.
Designated(entry, designation) ==
  IF designation \in Labels THEN entry.byDesignation[designation] ELSE NotArray

\* What the promise built from options.<table> resolves to for the model:
\* undefined, or the list found (which may turn out not to be an array).
TableValue(table, tableName, designation) ==
  IF table.kind # "object" \/ table.byTable[tableName].kind = "falsy"
    THEN [defined |-> FALSE, list |-> NotArray]
  ELSE IF table.byTable[tableName].kind = "array"
    THEN [defined |-> TRUE, list |-> table.byTable[tableName].list]
  ELSE [defined |-> TRUE, list |-> Designated(table.byTable[tableName], designation)]

\* The role's list alone, whatever the context-specific list.
roleVisibleProperties(visibleProperties, contextSpecificVisibleProperties) ==
  visibleProperties

\* ultimatelyVisibleProperties: the role's list, narrowed by the
\* context-specific list when there is one.
ultimatelyVisibleProperties(visibleProperties, contextSpecificVisibleProperties) ==
  IF contextSpecificVisibleProperties.defined
    THEN Intersection(visibleProperties, contextSpecificVisibleProperties.list.items)
    ELSE visibleProperties

\* The two ways of choosing the names, without the plugin's toggle: every
\* requested name, and the requested names that are visible.
requestedRelations(relationNamesToEnsure, ultimatelyVisible) == relationNamesToEnsure
visibleRelations(relationNamesToEnsure, ultimatelyVisible) ==
  Intersection(relationNamesToEnsure, ultimatelyVisible)

\* loadTheseRelations: the names handed to handleEnsureRelation.
loadTheseRelations(relationNamesToEnsure, ultimatelyVisible) ==
  IF plugin.ensureRelationsVisibleAndInvisible
    THEN relationNamesToEnsure
    ELSE Intersection(relationNamesToEnsure, ultimatelyVisible)

\* relationPromise (the default handleEnsureRelation) and the custom handlers of
\* the tests, on one relation name: one that loads the relation and reads it
\* through related(), and one that loads nothing and sets the artistName
\* attribute.  acc collects the names handled, the loads started, the
\* relations read through related(), whether the attribute was set, and the
\* error thrown.
handleEnsureRelation(m, relationName, acc) ==
  LET handled == [acc EXCEPT !.handled = Append(@, relationName)] IN
  IF plugin.handleEnsureRelation = "setter" THEN [handled EXCEPT !.set = TRUE]
  ELSE IF relations[m][relationName].loaded
    THEN IF plugin.handleEnsureRelation = "default"
           THEN [handled EXCEPT !.error = "ReferenceError: BluebirdPromise is not defined"]
           ELSE [handled EXCEPT !.related = @ \cup {relationName}]
    ELSE [handled EXCEPT !.pending[relationName] = @ + 1]

\* BluebirdPromise.map(loadTheseRelations, handleEnsureRelation): the handler is
\* called for the names in order, until one call throws.
RECURSIVE MapHandlers(_, _, _)
MapHandlers(m, names, acc) ==
  IF names = <<>> \/ acc.error # "none" THEN acc
  ELSE MapHandlers(m, Tail(names), handleEnsureRelation(m, Head(names), acc))

NothingHandled ==
  [handled |-> <<>>, pending |-> NoPending, related |-> {}, set |-> FALSE, error |-> "none"]

\* this.set('artistName', 'Bob Dylan')
SetArtistName(attrs) ==
  [a \in (DOMAIN attrs) \cup {"artistName"} |->
     IF a = "artistName" THEN BobDylan ELSE attrs[a]]

\* A related() that hands the parent's chain on as it is.
ParentChain(m, relationName) == accessedAsRelationChain[m]

\* Model.related(relationName): the models of the relation get the parent's
\* _accessor and the parent's chain with the relation name appended.
RelatedAccessor(m, relationName) == modelAccessor[m]
RelatedChain(m, relationName) == Append(accessedAsRelationChain[m], relationName)

InSeq(s) == {s[i] : i \in 1..Len(s)}

\* The call has the names to ensure: the handlers run.
EnsureRelations(m, names, uv) ==
  \E load \in {loadTheseRelations(names.items, uv)} :
  \E done \in {IF names.isArray THEN MapHandlers(m, load, NothingHandled) ELSE NothingHandled} :
  LET error == IF ~names.isArray
                 THEN "contextDesignator function did not identify array within ensureRelationsLoaded"
                 ELSE done.error
      stamped == UNION {InSeq(relations[m][n].models) : n \in done.related}
      via(c) == CHOOSE n \in done.related : c \in InSeq(relations[m][n].models)
  IN /\ call' = [call EXCEPT ![m].ultimatelyVisibleProperties = ArrayOf(uv),
                             ![m].pending = done.pending,
                             ![m].error = error]
     /\ pc' = [pc EXCEPT ![m] = IF error # "none" THEN "rejected" ELSE "ensure"]
     /\ log' = [log EXCEPT
          ![m].handleEnsureRelation = @ \o done.handled,
          ![m].load = @ \o Filter(done.handled, {n \in RelationNames : done.pending[n] > 0}),
          ![m].console = IF names.isArray /\ plugin.nodeEnv # "production"
                            /\ Len(load) # Len(names.items)
                           THEN Append(@, Difference(names.items, load)) ELSE @]
     /\ modelAccessor' = [c \in Models |->
          IF c \in stamped THEN RelatedAccessor(m, via(c)) ELSE modelAccessor[c]]
     /\ accessedAsRelationChain' = [c \in Models |->
          IF c \in stamped THEN RelatedChain(m, via(c)) ELSE accessedAsRelationChain[c]]
     /\ attributes' = [attributes EXCEPT ![m] = IF done.set THEN SetArtistName(@) ELSE @]
     /\ UNCHANGED <<Config, row, relations, result>>

\* The checks on options.ensureRelationsLoaded; an empty model skips them.
EnsureCheck(m) ==
  IF DOMAIN attributes[m] = {} THEN "none"
  ELSE TableCheck("ensureRelationsLoaded", options.ensureRelationsLoaded, TableName(row[m]))

\* The second .then of toJSON: the context-specific list is known.
ContextResolved(m) ==
  /\ pc[m] = "context"
  /\ NeedsDesignation(options.contextSpecificVisibleProperties, TableName(row[m]))
       => call[m].contextDesignation.state = "resolved"
  /\ \E contextSpecific \in {TableValue(options.contextSpecificVisibleProperties,
                                       TableName(row[m]), call[m].contextDesignation.label)} :
     \E uv \in {ultimatelyVisibleProperties(call[m].visibleProperties.items, contextSpecific)} :
     \E names \in {TableValue(options.ensureRelationsLoaded, TableName(row[m]),
                              call[m].contextDesignation.label)} :
     \E error \in {IF contextSpecific.defined /\ ~contextSpecific.list.isArray
                    THEN "contextDesignator function did not identify array within contextSpecificVisibleProperties"
                  ELSE IF uv = <<>> THEN "none"
                  ELSE EnsureCheck(m)} :
        IF error # "none" \/ uv = <<>>
          THEN /\ call' = [call EXCEPT ![m].error = error,
                                       ![m].ultimatelyVisibleProperties =
                                          IF contextSpecific.defined /\ ~contextSpecific.list.isArray
                                            THEN @ ELSE ArrayOf(uv)]
               /\ pc' = [pc EXCEPT ![m] = IF error # "none" THEN "rejected" ELSE "resolved"]
               /\ result' = [result EXCEPT ![m] = IF error = "none" THEN ResultUndefined ELSE @]
               /\ UNCHANGED <<Config, Graph, log>>
        ELSE IF DOMAIN attributes[m] = {} \/ ~names.defined
          THEN /\ call' = [call EXCEPT ![m].ultimatelyVisibleProperties = ArrayOf(uv)]
               /\ pc' = [pc EXCEPT ![m] = "ensure"]
               /\ UNCHANGED <<Config, Graph, result, log>>
        ELSE IF NeedsDesignation(options.ensureRelationsLoaded, TableName(row[m]))
                  /\ call[m].contextDesignation.state # "resolved"
          THEN /\ call' = [call EXCEPT ![m].ultimatelyVisibleProperties = ArrayOf(uv)]
               /\ pc' = [pc EXCEPT ![m] = "names"]
               /\ UNCHANGED <<Config, Graph, result, log>>
        ELSE EnsureRelations(m, names.list, uv)

\* relationNamesToEnsurePromise resolves once the context designation is known.
NamesResolved(m) ==
  /\ pc[m] = "names"
  /\ call[m].contextDesignation.state = "resolved"
  /\ EnsureRelations(m,
       TableValue(options.ensureRelationsLoaded, TableName(row[m]),
                  call[m].contextDesignation.label).list,
       call[m].ultimatelyVisibleProperties.items)

\* ------------------------------------------------------------ loading
Used == Cardinality(Allocated)
Failures == Cardinality({m \in Models : call[m].error = "load failed"})

\* model.load([relationName]) completes: Bookshelf sets the relation to models
\* built from the rows, and the handler reads it through related().
LoadDone(m, relationName) ==
  /\ pc[m] \in {"ensure", "rejected"}
  /\ call[m].pending[relationName] > 0
  /\ LET rows == RelatedRows(row[m], relationName)
         fresh == [i \in 1..Len(rows) |-> Used + i]
         index(c) == c - Used
     IN /\ Used + Len(rows) <= MaxModels
        /\ relations' = [relations EXCEPT ![m][relationName] = Loaded(fresh)]
        /\ row' = [c \in Models |-> IF c \in InSeq(fresh) THEN rows[index(c)] ELSE row[c]]
        /\ attributes' = [c \in Models |->
             IF c \in InSeq(fresh) THEN AttributesOf(rows[index(c)]) ELSE attributes[c]]
        /\ modelAccessor' = [c \in Models |->
             IF c \in InSeq(fresh) THEN RelatedAccessor(m, relationName) ELSE modelAccessor[c]]
        /\ accessedAsRelationChain' = [c \in Models |->
             IF c \in InSeq(fresh) THEN RelatedChain(m, relationName)
             ELSE accessedAsRelationChain[c]]
  /\ call' = [call EXCEPT ![m].pending[relationName] = @ - 1]
  /\ UNCHANGED <<Config, pc, result, log>>

\* A failed load reported as a SanityError of the plugin.
LoadFailedWrapped(m, relationName) ==
  /\ pc[m] = "ensure"
  /\ call[m].pending[relationName] > 0
  /\ database = "flaky"
  /\ Failures < MaxFailures
  /\ call' = [call EXCEPT ![m].pending[relationName] = @ - 1,
                          ![m].error = "ensureRelationsLoaded must be an object"]
  /\ pc' = [pc EXCEPT ![m] = "rejected"]
  /\ log' = [log EXCEPT ![m].failed = Append(@, relationName)]
  /\ UNCHANGED <<Config, Graph, result>>

\* model.load([relationName]) fails: the toJSON promise rejects with the
\* collaborator's error, unless it has rejected already.
LoadFailed(m, relationName) ==
  /\ pc[m] = "ensure"
  /\ call[m].pending[relationName] > 0
  /\ database = "flaky"
  /\ Failures < MaxFailures
  /\ call' = [call EXCEPT ![m].pending[relationName] = @ - 1, ![m].error = "load failed"]
  /\ pc' = [pc EXCEPT ![m] = "rejected"]
  /\ log' = [log EXCEPT ![m].failed = Append(@, relationName)]
  /\ UNCHANGED <<Config, Graph, result>>

\* ------------------------------------------------------------ prune and serialize
\* The relations of the model, none deleted.
AllRelations(m, visible) == relations[m]

\* The relations left on the model once those outside the visible list are
\* deleted.
PrunedRelations(m, visible) ==
  [n \in RelationNames |-> IF n \in visible THEN relations[m][n] ELSE NotLoaded]

\* The models Bookshelf's toJSON calls toJSON on, in turn: those of the
\* relations on the model.
RelatedModels(rels) == rels["parent"].models \o rels["children"].models

\* The first of the models whose toJSON throws, 0 if none does.
FirstThrower(ms) ==
  IF \E i \in 1..Len(ms) : EnterPc(ms[i]) = "threw"
    THEN CHOOSE i \in 1..Len(ms) :
           /\ EnterPc(ms[i]) = "threw"
           /\ \A j \in 1..(i - 1) : EnterPc(ms[j]) # "threw"
    ELSE 0

\* The third .then of toJSON: every handler is done.  The relations outside
\* the visible list are deleted, and Bookshelf's toJSON starts the toJSON of
\* every model of the relations that are left.
Prune(m) ==
  /\ pc[m] = "ensure"
  /\ \A n \in RelationNames : call[m].pending[n] = 0
  /\ LET visible == SeqToSet(call[m].ultimatelyVisibleProperties.items)
         kept == PrunedRelations(m, visible)
         children == RelatedModels(kept)
         thrower == FirstThrower(children)
         entered == IF thrower = 0 THEN InSeq(children)
                    ELSE {children[i] : i \in 1..thrower}
     IN /\ relations' = [relations EXCEPT ![m] = kept]
        /\ pc' = [c \in Models |->
             IF c = m THEN (IF thrower = 0 THEN "json" ELSE "rejected")
             ELSE IF c \in entered THEN EnterPc(c) ELSE pc[c]]
        /\ call' = [c \in Models |->
             IF c = m THEN (IF thrower = 0 THEN call[m]
                            ELSE [call[m] EXCEPT !.error = SanityCheck(children[thrower])])
             ELSE IF c \in entered THEN EnterCall(c) ELSE call[c]]
        /\ result' = [c \in Models |-> IF c \in entered THEN EnterResult(c) ELSE result[c]]
        /\ log' = [c \in Models |->
             IF c = m THEN [log[m] EXCEPT !.deleted =
                  {n \in RelationNames : relations[m][n].loaded /\ ~kept[n].loaded}]
             ELSE IF c \in entered THEN EnterLog(c) ELSE log[c]]
  /\ UNCHANGED <<Config, row, attributes, modelAccessor, accessedAsRelationChain>>

\* The models of a collection, none removed.
AllModels(ms) == ms

\* Collection.serialize: the results of the models, in order, without the
\* undefined ones.
RECURSIVE serialize(_)
serialize(ms) ==
  IF ms = <<>> THEN <<>>
  ELSE IF result[Head(ms)].kind = "undefined" THEN serialize(Tail(ms))
  ELSE <<Head(ms)>> \o serialize(Tail(ms))

\* _.isPlainObject(val) && _.isEmpty(val)
IsEmptyObject(r) ==
  r.kind = "object" /\ DOMAIN r.attributes = {} /\ DOMAIN r.relations = {}

\* A relation value that turns an undefined result of a single relation into
\* null, as it does an empty object.
RelationValueOrNull(m, relationName) ==
  LET ms == relations[m][relationName].models IN
  IF IsCollection(relationName) THEN [kind |-> "array", items |-> serialize(ms)]
  ELSE IF result[ms[1]].kind = "object" /\ ~IsEmptyObject(result[ms[1]])
    THEN [kind |-> "object", items |-> ms]
  ELSE [kind |-> "null", items |-> <<>>]

\* The value under a relation's key once the promises are resolved and empty
\* objects are mapped to null.
RelationValue(m, relationName) ==
  LET ms == relations[m][relationName].models IN
  IF IsCollection(relationName) THEN [kind |-> "array", items |-> serialize(ms)]
  ELSE IF result[ms[1]].kind = "object" /\ ~IsEmptyObject(result[ms[1]])
    THEN [kind |-> "object", items |-> ms]
  ELSE IF result[ms[1]].kind = "undefined" THEN [kind |-> "undefined", items |-> <<>>]
  ELSE [kind |-> "null", items |-> <<>>]

\* The function mapped over the values of the picked attributes: an empty
\* plain object becomes null.
EmptyToNull(val) == IF val = EmptyObject THEN Null ELSE val

\* A pick that drops the keys whose value is undefined.
PickDefined(m, visible) ==
  ResultObject(
    [a \in (DOMAIN attributes[m]) \cap visible |-> EmptyToNull(attributes[m][a])],
    [n \in {r \in RelationNames : /\ relations[m][r].loaded
                                  /\ r \in visible
                                  /\ RelationValue(m, r).kind # "undefined"} |->
       RelationValue(m, n)])

\* _.pick(json, ultimatelyVisibleProperties), then the mapping of empty objects.
Pick(m, visible) ==
  ResultObject(
    [a \in (DOMAIN attributes[m]) \cap visible |-> EmptyToNull(attributes[m][a])],
    [n \in {r \in RelationNames : relations[m][r].loaded} \cap visible |->
       RelationValue(m, n)])

Children(m) == RelatedModels(relations[m])

\* BluebirdPromise.props(jsonPromises) resolves: every related model is
\* serialized.
Serialized(m) ==
  /\ pc[m] = "json"
  /\ \A c \in InSeq(Children(m)) : pc[c] = "resolved"
  /\ result' = [result EXCEPT ![m] =
       Pick(m, SeqToSet(call[m].ultimatelyVisibleProperties.items))]
  /\ pc' = [pc EXCEPT ![m] = "resolved"]
  /\ UNCHANGED <<Config, Graph, call, log>>

\* A parent that takes the rejection of a related model for a missing value
\* and resolves with the rest.
Swallowed(m) ==
  /\ pc[m] = "json"
  /\ \E c \in InSeq(Children(m)) : pc[c] = "rejected"
  /\ result' = [result EXCEPT ![m] =
       Pick(m, SeqToSet(call[m].ultimatelyVisibleProperties.items))]
  /\ pc' = [pc EXCEPT ![m] = "resolved"]
  /\ UNCHANGED <<Config, Graph, call, log>>

\* BluebirdPromise.props(jsonPromises) rejects: a related model's toJSON has.
Rejected(m) ==
  /\ pc[m] = "json"
  /\ \E c \in InSeq(Children(m)) :
       /\ pc[c] = "rejected"
       /\ call' = [call EXCEPT ![m].error = call[c].error]
  /\ pc' = [pc EXCEPT ![m] = "rejected"]
  /\ UNCHANGED <<Config, Graph, result, log>>

Next ==
  \/ ToJSON
  \/ \E m \in Models : RoleResolved(m)
  \/ \E m \in Models : DesignationResolved(m)
  \/ \E m \in Models : ContextResolved(m)
  \/ \E m \in Models : NamesResolved(m)
  \/ \E m \in Models, n \in RelationNames : LoadDone(m, n)
  \/ \E m \in Models, n \in RelationNames : LoadFailed(m, n)
  \/ \E m \in Models : Prune(m)
  \/ \E m \in Models : Serialized(m)
  \/ \E m \in Models : Rejected(m)

Spec == Init /\ [][Next]_vars

\* Every promise callback that can run does run: the event loop leaves no
\* settled promise unhandled.
FairSpec == Spec /\ WF_vars(Next)

\* ------------------------------------------------------------ properties
\* The lists of a call as the documentation names them, read off the
\* configuration and the role and designation of the call.
HasRole(m) == call[m].role \in Roles

\* The role's list, NotArray while the role is not known.
RoleList(m) ==
  IF HasRole(m) THEN modelClass.rolesToVisibleProperties.byRole[call[m].role] ELSE NotArray
RoleVisible(m) == SeqToSet(RoleList(m).items)

\* The context-specific array that applies to the model, NotArray if none does.
ContextList(m) ==
  LET table == options.contextSpecificVisibleProperties
      entry == table.byTable[TableName(row[m])]
      label == call[m].contextDesignation.label
  IN IF table.kind # "object" THEN NotArray
     ELSE IF entry.kind = "array" THEN entry.list
     ELSE IF entry.kind = "object" /\ label \in Labels THEN entry.byDesignation[label]
     ELSE NotArray
ContextSupplied(m) == ContextList(m).isArray
ContextVisible(m) == SeqToSet(ContextList(m).items)

UltimatelyVisible(m) ==
  IF ContextSupplied(m) THEN RoleVisible(m) \cap ContextVisible(m) ELSE RoleVisible(m)

\* The relation names requested for the model by options.ensureRelationsLoaded.
Requested(m) ==
  LET table == options.ensureRelationsLoaded
      entry == table.byTable[TableName(row[m])]
      label == call[m].contextDesignation.label
  IN IF table.kind # "object" THEN {}
     ELSE IF entry.kind = "array" THEN SeqToSet(entry.list.items)
     ELSE IF entry.kind = "object" /\ label \in Labels
       THEN SeqToSet(entry.byDesignation[label].items)
     ELSE {}

Keys(m) == (DOMAIN result[m].attributes) \cup (DOMAIN result[m].relations)
ResolvedObject(m) == pc[m] = "resolved" /\ result[m].kind = "object"
Handled(m) == SeqToSet(log[m].handleEnsureRelation)
Loads(m) == SeqToSet(log[m].load)
Toggle == plugin.ensureRelationsVisibleAndInvisible

\* A model whose toJSON has resolved with an empty ultimately visible list.
Invisible(c) == HasRole(c) /\ pc[c] = "resolved" /\ UltimatelyVisible(c) = {}

SingleRelations == {n \in RelationNames : ~IsCollection(n)}
CollectionRelations == {n \in RelationNames : IsCollection(n)}
Position(ms, c) == CHOOSE i \in 1..Len(ms) : ms[i] = c

\* C1: every key of the object a toJSON call resolves to is in the role's
\* visible list, and in the context-specific list when one applies: the keys
\* are within their intersection.
C1_KeysUltimatelyVisible ==
  \A m \in Models : result[m].kind = "object" =>
    /\ HasRole(m)
    /\ Keys(m) \subseteq UltimatelyVisible(m)
    /\ Keys(m) \subseteq RoleVisible(m)
    /\ ContextSupplied(m) => Keys(m) \subseteq ContextVisible(m)

\* A resolved object from which the context-specific list has kept out an
\* attribute that the role may see.
C1_Witness ==
  \E m \in Models : \E a \in DOMAIN attributes[m] :
    /\ ResolvedObject(m)
    /\ ContextSupplied(m)
    /\ a \in RoleVisible(m)
    /\ a \notin Keys(m)
    /\ Keys(m) # {}

C4_CollectionFiltered ==
  \A m \in Models : \A n \in CollectionRelations :
    (ResolvedObject(m) /\ n \in DOMAIN result[m].relations) =>
      LET ms == relations[m][n].models
          items == result[m].relations[n].items
      IN /\ result[m].relations[n].kind = "array"
         /\ InSeq(items) = {c \in InSeq(ms) : result[c].kind # "undefined"}
         /\ \A i, j \in 1..Len(items) :
              i < j => Position(ms, items[i]) < Position(ms, items[j])
         /\ (\A c \in InSeq(ms) : result[c].kind = "undefined") => items = <<>>

\* A collection of two whose first member is kept and whose second is removed.
C4_Witness ==
  \E m \in Models : \E n \in CollectionRelations :
    /\ ResolvedObject(m)
    /\ n \in DOMAIN result[m].relations
    /\ Len(relations[m][n].models) = 2
    /\ result[relations[m][n].models[1]].kind = "object"
    /\ result[relations[m][n].models[2]].kind = "undefined"
    /\ result[m].relations[n].items = <<relations[m][n].models[1]>>

C6_PrunedBeforeConversion ==
  /\ \A m \in Models : (pc[m] = "json" \/ ResolvedObject(m)) =>
       \A n \in RelationNames : relations[m][n].loaded => n \in UltimatelyVisible(m)
  /\ \A c \in Models : (c # Root /\ pc[c] # "idle") =>
       \E m \in Models : \E n \in UltimatelyVisible(m) \cap RelationNames :
         relations[m][n].loaded /\ c \in InSeq(relations[m][n].models)

\* Under the toggle a relation outside the list was loaded during the call and
\* is gone from the model when the call has resolved.
C6_Witness ==
  /\ Toggle
  /\ \E m \in Models : \E n \in RelationNames :
       /\ ResolvedObject(m)
       /\ n \in Loads(m)
       /\ n \notin UltimatelyVisible(m)
       /\ n \in log[m].deleted
       /\ ~relations[m][n].loaded

\* C7: with the toggle off, a requested relation name outside the ultimately
\* visible list is not passed to handleEnsureRelation, no load is made for it,
\* and it is no key of the result.
C7_InvisibleNotEnsured ==
  ~Toggle =>
    \A m \in Models : \A n \in RelationNames :
      (HasRole(m) /\ n \notin UltimatelyVisible(m)) =>
        /\ n \notin Handled(m)
        /\ n \notin Loads(m)
        /\ n \notin Keys(m)

\* With the toggle off, a call resolved to an object after its handler ran for
\* a visible name while another requested name was not visible.
C7_Witness ==
  /\ ~Toggle
  /\ \E m \in Models : \E n \in RelationNames :
       /\ ResolvedObject(m)
       /\ DOMAIN attributes[m] # {}
       /\ n \in Requested(m)
       /\ n \notin UltimatelyVisible(m)
       /\ n \notin Handled(m)
       /\ Handled(m) # {}

\* C8: with the toggle on, a toJSON call whose handlers did not fail has passed
\* every requested relation name to handleEnsureRelation, visible or not, and a
\* name outside the ultimately visible list is no key of the result.
C8_RequestedAllEnsured ==
  Toggle =>
    \A m \in Models :
      ((pc[m] \in {"ensure", "json"} \/ ResolvedObject(m)) /\ DOMAIN attributes[m] # {}) =>
        \A n \in Requested(m) :
          /\ n \in Handled(m)
          /\ n \notin UltimatelyVisible(m) => n \notin Keys(m)

\* Under the toggle the handler ran for a requested name outside the list, and
\* the call resolved to an object without that key.
C8_Witness ==
  /\ Toggle
  /\ \E m \in Models : \E n \in Requested(m) :
       /\ ResolvedObject(m)
       /\ n \notin UltimatelyVisible(m)
       /\ n \in Handled(m)
       /\ n \notin Keys(m)

\* C9: within a toJSON call the contextDesignator function is invoked at most
\* once, exactly once when the call gets as far as the context-specific list
\* with a function given; the label of that one invocation is the one under
\* which both the context-specific list and the relation names are looked up.
C9_DesignatorInvokedOnce ==
  \A m \in Models :
    LET invoked == log[m].contextDesignator
        tableName == TableName(row[m])
        contextEntry == options.contextSpecificVisibleProperties.byTable[tableName]
        ensureEntry == options.ensureRelationsLoaded.byTable[tableName]
        computed == call[m].ultimatelyVisibleProperties
    IN /\ Len(invoked) <= 1
       /\ ((pc[m] \in {"context", "names", "ensure", "json"} \/ ResolvedObject(m))
            /\ options.contextDesignator \in {"byChain", "stranger"}) => Len(invoked) = 1
       /\ (computed.isArray /\ options.contextSpecificVisibleProperties.kind = "object"
            /\ contextEntry.kind = "object") =>
            /\ Len(invoked) = 1
            /\ invoked[1] \in Labels
            /\ computed.items =
                 Intersection(RoleList(m).items, contextEntry.byDesignation[invoked[1]].items)
       /\ (log[m].handleEnsureRelation # <<>> /\ ensureEntry.kind = "object") =>
            /\ Len(invoked) = 1
            /\ invoked[1] \in Labels
            /\ Handled(m) \subseteq SeqToSet(ensureEntry.byDesignation[invoked[1]].items)
            /\ pc[m] # "rejected" =>
                 log[m].handleEnsureRelation =
                   loadTheseRelations(ensureEntry.byDesignation[invoked[1]].items,
                                      computed.items)

\* Both options are indexed by designation; a model reached through a relation
\* has resolved to an object, each of the two calls having invoked the function
\* once, and the top-level call has had relations ensured.
C9_Witness ==
  /\ options.contextSpecificVisibleProperties.byTable["comments"].kind = "object"
  /\ options.ensureRelationsLoaded.byTable["comments"].kind = "object"
  /\ log[Root].handleEnsureRelation # <<>>
  /\ log[Root].contextDesignator = <<"self">>
  /\ \E c \in Models : /\ c # Root
                       /\ ResolvedObject(c)
                       /\ log[c].contextDesignator = <<"peer">>

\* C10: a toJSON call on a model whose class has no roleDeterminer function or
\* no rolesToVisibleProperties object throws to its caller: no promise is
\* returned, the roleDeterminer, the contextDesignator and the handlers are not
\* invoked, nothing is loaded, and the models are left as they were.
C10_MisconfiguredThrows ==
  /\ [](Broken(modelClass) > 0 =>
          \A m \in Models :
            /\ pc[m] \in {"idle", "threw"}
            /\ pc[m] = "threw" =>
                 call[m].error \in {"roleDeterminer function was not defined",
                                    "rolesToVisibleProperties was not defined"}
            /\ call[m].role = Undefined
            /\ result[m] = NoResult
            /\ log[m] = NoLog)
  /\ [][Broken(modelClass) > 0 => UNCHANGED Graph]_vars

\* The call on a model of a class without roleDeterminer has thrown.
C10_Witness ==
  /\ ~modelClass.hasRoleDeterminer
  /\ pc[Root] = "threw"
  /\ call[Root].error = "roleDeterminer function was not defined"

\* C11: a toJSON call whose role has no array in rolesToVisibleProperties
\* (no entry for the role, or an entry that is not an array) rejects with the
\* SanityError of the role check and resolves to nothing.
C11_RoleWithoutArrayRejects ==
  \A m \in Models : (HasRole(m) /\ ~RoleList(m).isArray) =>
    /\ pc[m] = "rejected"
    /\ call[m].error =
         "rolesToVisibleProperties does not contain array of visible properties for role"
    /\ result[m] = NoResult
    /\ Handled(m) = {}
    /\ log[m].contextDesignator = <<>>

\* A call has rejected on a role that has no array.
C11_Witness ==
  \E m \in Models :
    /\ HasRole(m)
    /\ ~RoleList(m).isArray
    /\ pc[m] = "rejected"
    /\ log[m].roleDeterminer # <<>>

\* The entries of the two table options for the model's table, and whether
\* the context-specific one passes the checks of the first .then.
ContextEntry(m) == options.contextSpecificVisibleProperties.byTable[TableName(row[m])]
EnsureEntry(m) == options.ensureRelationsLoaded.byTable[TableName(row[m])]
ContextKeyed(m) ==
  options.contextSpecificVisibleProperties.kind = "object" /\ ContextEntry(m).kind = "object"
EnsureKeyed(m) ==
  options.ensureRelationsLoaded.kind = "object" /\ EnsureEntry(m).kind = "object"
ContextPlain(m) ==
  \/ options.contextSpecificVisibleProperties.kind = "falsy"
  \/ /\ options.contextSpecificVisibleProperties.kind = "object"
     /\ ContextEntry(m).kind \in {"falsy", "array"}
MissingContextDesignator == "options must contain an contextDesignator function"

\* C12 as stated: with an entry indexed by designation in either option and no
\* contextDesignator, no toJSON call on a model of the table resolves.
C12_KeyedEntryNeverResolves ==
  \A m \in Models :
    (options.contextDesignator = "absent" /\ (ContextKeyed(m) \/ EnsureKeyed(m))) =>
      pc[m] # "resolved"

\* C12: without a contextDesignator, a toJSON call rejects with the
\* missing-designator SanityError once it reaches an entry indexed by
\* designation: the contextSpecificVisibleProperties entry when the role's list
\* is not empty, the ensureRelationsLoaded entry when the ultimately visible
\* list is not empty and the model has attributes.
C12_KeyedEntryReachedRejects ==
  \A m \in Models :
    (options.contextDesignator = "absent" /\ HasRole(m) /\ RoleVisible(m) # {}) =>
      /\ ContextKeyed(m) =>
           /\ pc[m] = "rejected"
           /\ call[m].error = MissingContextDesignator
           /\ result[m] = NoResult
      /\ (EnsureKeyed(m) /\ ContextPlain(m) /\ pc[m] # "context"
            /\ UltimatelyVisible(m) # {} /\ DOMAIN attributes[m] # {}) =>
           /\ pc[m] = "rejected"
           /\ call[m].error = MissingContextDesignator
           /\ result[m] = NoResult
           /\ Handled(m) = {}

\* Without a contextDesignator a call has rejected on the ensureRelationsLoaded
\* entry, its ultimately visible list being not empty.
C12_Witness ==
  \E m \in Models :
    /\ options.contextDesignator = "absent"
    /\ EnsureKeyed(m)
    /\ ContextPlain(m)
    /\ HasRole(m)
    /\ UltimatelyVisible(m) # {}
    /\ pc[m] = "rejected"
    /\ call[m].error = MissingContextDesignator

\* What an entry indexed by designation holds for a label.
LabelValue(entry, label) ==
  IF label \in Labels THEN entry.byDesignation[label] ELSE NotArray

\* The label the contextDesignator function gave the call, once invoked.
Invoked(m) == Len(log[m].contextDesignator) = 1
Label(m) == log[m].contextDesignator[1]

MalformedContextEntry ==
  "contextDesignator function did not identify array within contextSpecificVisibleProperties"
MalformedEnsureEntry ==
  "contextDesignator function did not identify array within ensureRelationsLoaded"

\* C13 as stated: when the contextDesignator function has given a label that
\* has no array in the model's entry of either option, the toJSON call does
\* not resolve.
C13_LabelWithoutArrayNeverResolves ==
  \A m \in Models :
    (/\ Invoked(m)
     /\ \/ ContextKeyed(m) /\ ~LabelValue(ContextEntry(m), Label(m)).isArray
        \/ EnsureKeyed(m) /\ ~LabelValue(EnsureEntry(m), Label(m)).isArray) =>
      pc[m] # "resolved"

\* C13: a label without an array in the contextSpecificVisibleProperties entry
\* rejects the call with the SanityError of that lookup; a label without an
\* array in the ensureRelationsLoaded entry rejects it with the SanityError of
\* that lookup when the lookup is reached, that is when the ultimately visible
\* list is not empty and the model has attributes.  The list is not taken for
\* empty nor for unrestricted: nothing is handled and nothing is resolved.
C13_LabelWithoutArrayRejects ==
  \A m \in Models : Invoked(m) =>
    /\ (ContextKeyed(m) /\ ~LabelValue(ContextEntry(m), Label(m)).isArray
          /\ pc[m] # "context") =>
         /\ pc[m] = "rejected"
         /\ call[m].error = MalformedContextEntry
         /\ result[m] = NoResult
         /\ Handled(m) = {}
    /\ (EnsureKeyed(m) /\ ~LabelValue(EnsureEntry(m), Label(m)).isArray
          /\ (ContextPlain(m) \/ (ContextKeyed(m) /\ ContextSupplied(m)))
          /\ UltimatelyVisible(m) # {} /\ DOMAIN attributes[m] # {}
          /\ pc[m] \notin {"context", "names"}) =>
         /\ pc[m] = "rejected"
         /\ call[m].error = MalformedEnsureEntry
         /\ result[m] = NoResult
         /\ Handled(m) = {}

\* A call has rejected on a label without an array in the ensureRelationsLoaded
\* entry, after computing an ultimately visible list that is not empty.
C13_Witness ==
  \E m \in Models :
    /\ Invoked(m)
    /\ EnsureKeyed(m)
    /\ ~LabelValue(EnsureEntry(m), Label(m)).isArray
    /\ UltimatelyVisible(m) # {}
    /\ pc[m] = "rejected"
    /\ call[m].error = MalformedEnsureEntry

\* C14 as stated: with a truthy contextSpecificVisibleProperties or
\* ensureRelationsLoaded that is not an object, no toJSON call resolves.
C14_NonObjectNeverResolves ==
  \A m \in Models :
    (\/ options.contextSpecificVisibleProperties.kind = "nonObject"
     \/ options.ensureRelationsLoaded.kind = "nonObject") =>
      pc[m] # "resolved"

\* C14: a truthy contextSpecificVisibleProperties that is not an object rejects
\* every toJSON call whose role list is not empty, and a truthy
\* ensureRelationsLoaded that is not an object rejects every call whose
\* ultimately visible list is not empty on a model with attributes, each with
\* the SanityError naming the option.
C14_NonObjectReachedRejects ==
  \A m \in Models :
    (HasRole(m) /\ RoleVisible(m) # {} /\ options.contextDesignator # "notFunction") =>
      /\ options.contextSpecificVisibleProperties.kind = "nonObject" =>
           /\ pc[m] = "rejected"
           /\ call[m].error = "contextSpecificVisibleProperties must be an object"
           /\ result[m] = NoResult
      /\ (options.ensureRelationsLoaded.kind = "nonObject"
            /\ (ContextPlain(m) \/ (ContextKeyed(m) /\ ContextSupplied(m)))
            /\ UltimatelyVisible(m) # {} /\ DOMAIN attributes[m] # {}
            /\ pc[m] # "context") =>
           /\ pc[m] = "rejected"
           /\ call[m].error = "ensureRelationsLoaded must be an object"
           /\ result[m] = NoResult
           /\ Handled(m) = {}

\* A call has rejected on an ensureRelationsLoaded that is not an object.
C14_Witness ==
  \E m \in Models :
    /\ options.ensureRelationsLoaded.kind = "nonObject"
    /\ HasRole(m)
    /\ UltimatelyVisible(m) # {}
    /\ pc[m] = "rejected"
    /\ call[m].error = "ensureRelationsLoaded must be an object"

\* The SanityErrors of the configuration.
ConfigurationErrors ==
  { "rolesToVisibleProperties does not contain array of visible properties for role",
    "contextDesignator must be a function",
    MissingContextDesignator, MalformedContextEntry, MalformedEnsureEntry,
    "contextSpecificVisibleProperties must be an object",
    "ensureRelationsLoaded must be an object",
    "contextSpecificVisibleProperties[tableName] must be an array or an object",
    "ensureRelationsLoaded[tableName] must be an array or an object",
    "roleDeterminer function was not defined",
    "rolesToVisibleProperties was not defined" }

Failed(m) == pc[m] \in {"rejected", "threw"}

\* C15: when the toJSON call of any model of the tree has failed, the top-level
\* call does not resolve: a call resolves to an object only when the calls of
\* all its related models have resolved, a call waiting for its related models
\* rejects with the error of one that has rejected, and the top-level call
\* does reject in the end.
C15_ErrorReachesTopLevel ==
  /\ [](pc[Root] = "resolved" => \A c \in Models : ~Failed(c))
  /\ [](\A m \in Models : ResolvedObject(m) =>
          \A c \in InSeq(Children(m)) : pc[c] = "resolved")
  /\ [][\A m \in Models : (pc[m] = "json" /\ pc'[m] # "json") =>
          \/ pc'[m] = "resolved" /\ \A c \in InSeq(Children(m)) : pc[c] = "resolved"
          \/ /\ pc'[m] = "rejected"
             /\ \E c \in InSeq(Children(m)) :
                  pc[c] = "rejected" /\ call'[m].error = call[c].error]_vars
  /\ (\E c \in Models : pc[c] = "rejected") ~> (pc[Root] = "rejected")

\* The top-level call has rejected with the configuration error of the call of
\* a related model.
C15_Witness ==
  \E c \in Models :
    /\ c # Root
    /\ pc[c] = "rejected"
    /\ call[c].error \in ConfigurationErrors
    /\ Handled(c) = {}
    /\ pc[Root] = "rejected"
    /\ call[Root].error = call[c].error
    /\ result[Root] = NoResult

\* The calls that have begun, and the models a model was reached through.
Started(m) == pc[m] # "idle"
Settled(m) == pc[m] \in {"resolved", "rejected", "threw"}

RECURSIVE Ancestors(_)
Ancestors(c) ==
  LET holders == {m \in Models : c \in InSeq(Children(m))}
  IN holders \cup UNION {Ancestors(m) : m \in holders}

\* The records a call came through, its own included.
PathRows(m) == {row[a] : a \in Ancestors(m) \cup {m}}

\* A hop that no visibility list cuts and that closes a cycle: a call has a
\* relation in its ultimately visible list, loaded or being loaded, that
\* leads back to a record the call came through.
Uncut ==
  \E m \in Models : \E n \in RelationNames :
    /\ Started(m)
    /\ n \in UltimatelyVisible(m)
    /\ call[m].pending[n] > 0 \/ relations[m][n].loaded
    /\ \E r \in InSeq(RelatedRows(row[m], n)) : r \in PathRows(m)

\* The number of walks through the relations of the database that start at a
\* record and never come back to a record they went through.
RECURSIVE Walks(_, _), WalksFrom(_, _)
WalksFrom(rows, path) ==
  IF rows = <<>> THEN 0
  ELSE (IF Head(rows) \in path THEN 0 ELSE Walks(Head(rows), path))
       + WalksFrom(Tail(rows), path)
Walks(r, path) ==
  1 + WalksFrom(RelatedRows(r, "parent") \o RelatedRows(r, "children"), path \cup {r})

RelatedCalled(m, relationName) ==
  \/ /\ call'[m].pending[relationName] < call[m].pending[relationName]
     /\ relations'[m][relationName] # relations[m][relationName]
  \/ /\ relations[m][relationName].loaded
     /\ plugin.handleEnsureRelation # "default"
     /\ Len(log'[m].handleEnsureRelation) > Len(log[m].handleEnsureRelation)
     /\ Contains(SubSeq(log'[m].handleEnsureRelation,
                        Len(log[m].handleEnsureRelation) + 1,
                        Len(log'[m].handleEnsureRelation)), relationName)

Stamp(m) == <<modelAccessor[m], accessedAsRelationChain[m]>>

\* C17: the chain of the top-level model is empty; a call of related(name) on
\* a model leaves every model of the relation with the model's _accessor and
\* with the model's chain plus the one entry name, and leaves the model's own
\* _accessor and chain as they were; nothing else changes the _accessor or
\* the chain of a model.
C17_RelatedStamps ==
  /\ [](accessedAsRelationChain[Root] = <<>>)
  /\ [][\A m \in Models : \A n \in RelationNames : RelatedCalled(m, n) =>
          /\ relations'[m][n].loaded
          /\ \A c \in InSeq(relations'[m][n].models) :
               /\ modelAccessor'[c] = modelAccessor[m]
               /\ accessedAsRelationChain'[c] = accessedAsRelationChain[m] \o <<n>>
               /\ Len(accessedAsRelationChain'[c]) = Len(accessedAsRelationChain[m]) + 1
          /\ Stamp(m)' = Stamp(m)]_vars
  /\ [][\A c \in Models : Stamp(c)' # Stamp(c) =>
          \E m \in Models \ {c} : \E n \in RelationNames :
            RelatedCalled(m, n) /\ c \in InSeq(relations'[m][n].models)]_vars

\* Two hops from the top-level model: a model stamped with the accessor of
\* the top-level model and a chain of the two relation names it was reached
\* through, held by a model whose chain is the first of them.
C17_Witness ==
  \E m \in Models \ {Root} : \E n \in RelationNames :
    \E c \in InSeq(relations[m][n].models) :
      /\ Len(accessedAsRelationChain[m]) = 1
      /\ accessedAsRelationChain[c] = accessedAsRelationChain[m] \o <<n>>
      /\ modelAccessor[Root] \in Accessors
      /\ modelAccessor[c] = modelAccessor[Root]
      /\ modelAccessor[m] = modelAccessor[Root]
      /\ accessedAsRelationChain[Root] = <<>>

\* An empty model: no attributes, no relations.
EmptyModel(m) ==
  /\ row[m] # NoRow
  /\ DOMAIN attributes[m] = {}
  /\ \A n \in RelationNames : ~relations[m][n].loaded

\* The model is allowed at least one property: its ultimately visible list is
\* not empty, or, for a call that did not get to evaluate the role, the list
\* of the role it has is not empty and no context-specific list is given.
NonAbsent(m) ==
  \/ HasRole(m) /\ RoleList(m).isArray /\ UltimatelyVisible(m) # {}
  \/ /\ ~HasRole(m)
     /\ options.contextSpecificVisibleProperties.kind = "falsy"
     /\ LET list == modelClass.rolesToVisibleProperties.byRole[
                      roleDeterminer(row[m], AccessorFor(m))]
        IN list.isArray /\ list.items # <<>>

\* What the resolved parent of a model holds for it: the model is in the
\* array of its collection relation, or its single relation is null.
HeldAs(m, kind) ==
  \A p \in Models : \A n \in RelationNames :
    (ResolvedObject(p) /\ relations[p][n].loaded /\ m \in InSeq(relations[p][n].models)) =>
      /\ n \in DOMAIN result[p].relations
      /\ IF IsCollection(n)
           THEN /\ result[p].relations[n].kind = "array"
                /\ m \in InSeq(result[p].relations[n].items)
                /\ result[m].kind = kind
           ELSE result[p].relations[n] = [kind |-> "null", items |-> <<>>]

\* C18 as stated: an empty model that is allowed some property resolves to
\* the empty object, at the top level and as a member of a collection, and is
\* null as the single relation of its parent.
C18_EmptyModelIsEmptyObject ==
  \A m \in Models : (EmptyModel(m) /\ NonAbsent(m) /\ pc[m] = "resolved") =>
    /\ IsEmptyObject(result[m])
    /\ HeldAs(m, "object")

\* C18: unless unsaved models are omitted, an empty model that is allowed
\* some property resolves to the empty object, which is what the array of a
\* collection relation holds for it, and the single relation of its parent is
\* null; when unsaved models are omitted (omitNew), the empty model, having no
\* id, resolves to null, at the top level and in the array of a collection
\* too.  It never resolves to undefined.
C18_EmptyModelUnlessOmitted ==
  \A m \in Models : (EmptyModel(m) /\ NonAbsent(m) /\ pc[m] = "resolved") =>
    /\ result[m] # ResultUndefined
    /\ IF OmitNew
         THEN result[m] = ResultNull /\ HeldAs(m, "null")
         ELSE IsEmptyObject(result[m]) /\ HeldAs(m, "object")

\* Without omitNew, a resolved top-level model has an empty model as its
\* single relation, which is null in its object, and a model of its collection
\* holds an empty model in its own collection, resolved to the empty object.
C18_Witness ==
  /\ ~OmitNew
  /\ ResolvedObject(Root)
  /\ \E n \in SingleRelations : \E m \in InSeq(relations[Root][n].models) :
       /\ EmptyModel(m) /\ NonAbsent(m) /\ IsEmptyObject(result[m])
       /\ result[Root].relations[n].kind = "null"
  /\ \E p \in Models : \E k \in CollectionRelations :
       \E m \in InSeq(relations[p][k].models) :
         /\ ResolvedObject(p)
         /\ EmptyModel(m) /\ NonAbsent(m) /\ IsEmptyObject(result[m])
         /\ m \in InSeq(result[p].relations[k].items)

\* The error the data-access collaborator fails a load with.
LoadError == "load failed"

\* The calls a load of which has failed.
LoadFailedIn == {m \in Models : log[m].failed # <<>>}

\* C19: a failed load rejects the call that ensures the relation with the
\* collaborator's error, which is no configuration error; the call has no
\* result, the top-level call does not resolve once a load has failed, and it
\* rejects in the end with that same error and no result.
C19_LoadErrorVerbatim ==
  /\ LoadError \notin ConfigurationErrors
  /\ [](\A m \in LoadFailedIn :
          pc[m] = "rejected" /\ call[m].error = LoadError /\ result[m] = NoResult)
  /\ [](LoadFailedIn # {} => pc[Root] # "resolved")
  /\ (LoadFailedIn # {})
       ~> (pc[Root] = "rejected" /\ call[Root].error = LoadError /\ result[Root] = NoResult)

\* The load of a relation of a related model has failed, and the top-level
\* call, which had loaded its own relations, has rejected with the
\* collaborator's error.
C19_Witness ==
  \E c \in LoadFailedIn \ {Root} :
    /\ Root \in Ancestors(c)
    /\ call[c].error = LoadError
    /\ \A n \in InSeq(log[c].failed) : ~relations[c][n].loaded
    /\ Loads(Root) # {}
    /\ pc[Root] = "rejected"
    /\ call[Root].error = LoadError
    /\ result[Root] = NoResult

\* C20: when the options of the call hold an accessor, every toJSON call of
\* the run, the top-level one and those on the related models, invokes the
\* roleDeterminer with that accessor, whatever accessor the model is stamped
\* with, and the role of the call is the one of that accessor; without one
\* the stamped accessor is used.
C20_OptionAccessorFirst ==
  \A m \in Models :
    LET used == IF options.accessor # NoAccessor THEN options.accessor ELSE modelAccessor[m]
    IN /\ \A i \in 1..Len(log[m].roleDeterminer) : log[m].roleDeterminer[i] = used
       /\ HasRole(m) =>
            /\ log[m].roleDeterminer = <<used>>
            /\ call[m].accessor = used
            /\ call[m].role = roleDeterminer(row[m], used)

\* The options hold an accessor other than the one stamped on the models; a
\* related model has resolved to an object under the role of the option's
\* accessor, which is not the role of the accessor stamped on it, and so has
\* the top-level model.
C20_Witness ==
  /\ options.accessor \in Accessors
  /\ modelAccessor[Root] \in Accessors \ {options.accessor}
  /\ ResolvedObject(Root)
  /\ call[Root].role = roleDeterminer(row[Root], options.accessor)
  /\ \E c \in Models \ {Root} :
       /\ Root \in Ancestors(c)
       /\ modelAccessor[c] = modelAccessor[Root]
       /\ ResolvedObject(c)
       /\ log[c].roleDeterminer = <<options.accessor>>
       /\ call[c].role = roleDeterminer(row[c], options.accessor)
       /\ call[c].role # roleDeterminer(row[c], modelAccessor[c])

\* The state of a record that a toJSON call reads to find what is visible.
RecordState(m) == <<row[m], AccessorFor(m), accessedAsRelationChain[m]>>

\* What the ultimately visible list of a model is made from: its table, the
\* role of the accessor, and the designation of its chain.
Inputs(m) ==
  <<TableName(row[m]), roleDeterminer(row[m], AccessorFor(m)),
    IF options.contextDesignator \in {"byChain", "stranger"}
      THEN contextDesignator(options.contextDesignator, TableName(row[m]),
                             accessedAsRelationChain[m], row[m])
      ELSE Undefined>>

\* The context-specific array for the model under the designation the
\* designator gives for its chain, NotArray if none applies.
ContextFor(m) ==
  LET table == options.contextSpecificVisibleProperties
      entry == table.byTable[TableName(row[m])]
      label == contextDesignator(options.contextDesignator, TableName(row[m]),
                                 accessedAsRelationChain[m], row[m])
  IN IF table.kind # "object" THEN NotArray
     ELSE IF entry.kind = "array" THEN entry.list
     ELSE IF entry.kind = "object" /\ options.contextDesignator = "byChain"
       THEN entry.byDesignation[label]
     ELSE NotArray

\* The ultimately visible set as a function of the inputs alone.
VisibleFor(m) ==
  LET list == modelClass.rolesToVisibleProperties.byRole[
                roleDeterminer(row[m], AccessorFor(m))]
  IN IF ContextFor(m).isArray
       THEN SeqToSet(list.items) \cap SeqToSet(ContextFor(m).items)
       ELSE SeqToSet(list.items)

Computed(m) == call[m].ultimatelyVisibleProperties.isArray

C22_ReachedModelsStamped ==
  \A m \in Models : \A n \in RelationNames :
    \A c \in InSeq(relations[m][n].models) :
      (HasRole(m) /\ HasRole(c)) =>
        /\ call[c].accessor = call[Root].accessor
        /\ accessedAsRelationChain[c] = accessedAsRelationChain[m] \o <<n>>

\* The loads a call has started have all completed.
LoadsComplete(m) == \A n \in RelationNames : call[m].pending[n] = 0

\* A step of the call of m that asks for the designation, invokes the relation
\* handler or starts a load, takes a relation off the model, converts the
\* model, or begins the call.
AsksDesignation(m) ==
  \/ call[m].contextDesignation.state = "none" /\ call'[m].contextDesignation.state # "none"
  \/ log'[m].contextDesignator # log[m].contextDesignator
EnsuresRelation(m) ==
  \/ log'[m].handleEnsureRelation # log[m].handleEnsureRelation
  \/ log'[m].load # log[m].load
PrunesRelation(m) ==
  \E n \in RelationNames : relations[m][n].loaded /\ ~relations'[m][n].loaded
Converts(m) == result[m].kind # "object" /\ result'[m].kind = "object"
Begins(c) == pc[c] = "idle" /\ pc'[c] # "idle"

\* C23: the steps of one toJSON call keep their order.  The role is known
\* when the designation is asked for and whenever the call is at or past the
\* context lookup; the ultimately visible list is computed when the handler
\* is invoked or a load is started, and before a load completes; a relation
\* is taken off the model only when every load the call started has
\* completed; the model is converted only after the pruning step, which it
\* leaves alone; and a related model begins its call only in the step that
\* ends its holder's pruning, through a relation that the pruning kept.
C23_PipelineOrder ==
  /\ [](\A m \in Models :
         /\ pc[m] \in {"context", "names", "ensure", "json"} => HasRole(m)
         /\ pc[m] \in {"ensure", "json"} => Computed(m)
         /\ (pc[m] = "json" \/ ResolvedObject(m)) => LoadsComplete(m))
  /\ [][\A m \in Models :
         /\ AsksDesignation(m) => (pc[m] = "role" /\ HasRole(m)')
         /\ EnsuresRelation(m) => (HasRole(m) /\ Computed(m)'
                                   /\ pc'[m] \in {"ensure", "rejected"}
                                   /\ relations'[m] = relations[m])
         /\ (relations'[m] # relations[m] /\ ~PrunesRelation(m)) =>
              (Computed(m) /\ pc[m] \in {"ensure", "rejected"})
         /\ PrunesRelation(m) =>
              (pc[m] = "ensure" /\ LoadsComplete(m) /\ pc'[m] \in {"json", "rejected"})
         /\ Converts(m) => (pc[m] = "json" /\ relations'[m] = relations[m])
         /\ (m # Root /\ Begins(m)) =>
              \E h \in Models : \E n \in RelationNames :
                /\ pc[h] = "ensure" /\ LoadsComplete(h)
                /\ pc'[h] \in {"json", "rejected"}
                /\ relations'[h][n].loaded
                /\ m \in InSeq(relations'[h][n].models)
                /\ \A k \in RelationNames :
                     relations'[h][k].loaded => k \in UltimatelyVisible(h)]_vars

\* A call that loaded a relation and pruned one has resolved to an object, and
\* a related model reached through a kept relation has settled.
C23_Witness ==
  \E m \in Models : \E n \in RelationNames : \E c \in Models :
    /\ ResolvedObject(m)
    /\ Loads(m) # {}
    /\ log[m].deleted # {}
    /\ relations[m][n].loaded
    /\ c \in InSeq(relations[m][n].models)
    /\ Settled(c)

\* The members of a collection relation that a model holds, and two distinct
\* members of one collection.
Members(h, n) ==
  IF IsCollection(n) /\ relations[h][n].loaded THEN InSeq(relations[h][n].models) ELSE {}
Siblings(c1, c2) ==
  c1 # c2 /\ \E h \in Models : \E n \in RelationNames : {c1, c2} \subseteq Members(h, n)

\* All that a model and its toJSON call hold.
MemberState(c) ==
  <<row[c], attributes[c], relations[c], modelAccessor[c], accessedAsRelationChain[c],
    pc[c], call[c], result[c], log[c]>>
Acts(c) == MemberState(c)' # MemberState(c)

\* What the record and the configuration fix for a call: the role, the label,
\* and the rows of the relations.
ExpectedRole(c) == roleDeterminer(row[c], call[c].accessor)
ExpectedLabel(c) ==
  contextDesignator(options.contextDesignator, TableName(row[c]),
                    accessedAsRelationChain[c], row[c])
RowsOf(ms) == [i \in 1..Len(ms) |-> row[ms[i]]]

\* C24: the members of a collection are serialized concurrently and
\* independently.  The array of a collection is in the result of its holder
\* only when the call of every member has resolved, and it is the members'
\* results in the collection's order without the undefined ones; what a member
\* resolves to is fixed by its record and the configuration (its role, its
\* label, its attributes, the rows of its relations, the pick of the visible
\* keys), whatever the order of the steps; and a step of a member that has
\* begun changes nothing of another member that has begun.
C24_MembersIndependent ==
  /\ [](\A h \in Models : \A n \in RelationNames :
         (ResolvedObject(h) /\ IsCollection(n) /\ n \in DOMAIN result[h].relations) =>
           /\ \A c \in Members(h, n) : pc[c] = "resolved"
           /\ result[h].relations[n] =
                [kind |-> "array", items |-> serialize(relations[h][n].models)])
  /\ [](\A h \in Models : \A n \in RelationNames : \A c \in Members(h, n) :
         /\ HasRole(c) => call[c].role = ExpectedRole(c)
         /\ call[c].contextDesignation.label \in Labels =>
              call[c].contextDesignation.label = ExpectedLabel(c)
         /\ attributes[c] =
              IF plugin.handleEnsureRelation = "setter" /\ Handled(c) # {}
                THEN SetArtistName(AttributesOf(row[c])) ELSE AttributesOf(row[c])
         /\ \A k \in RelationNames : relations[c][k].loaded =>
              RowsOf(relations[c][k].models) = RelatedRows(row[c], k)
         /\ ResolvedObject(c) => result[c] = Pick(c, UltimatelyVisible(c)))
  /\ [][\A c1, c2 \in Models :
          (Siblings(c1, c2) /\ Started(c1) /\ Started(c2) /\ Acts(c1)) => ~Acts(c2)]_vars

\* The holder of a collection has resolved with an array of two members, each
\* of which loaded a relation during its own call.
C24_Witness ==
  \E h \in Models : \E n \in RelationNames :
    /\ ResolvedObject(h)
    /\ n \in DOMAIN result[h].relations
    /\ result[h].relations[n].kind = "array"
    /\ Len(result[h].relations[n].items) = 2
    /\ \A c \in Members(h, n) : ResolvedObject(c) /\ Loads(c) # {}

\* The requested names that the toggle has had handled although they are
\* outside the ultimately visible list of the call.
ForcedNames(m) ==
  IF Toggle /\ Computed(m) THEN Handled(m) \ UltimatelyVisible(m) ELSE {}

\* C25: outside production, when the toggle has a requested name outside the
\* ultimately visible list handled, the call has written a diagnostic that
\* lists exactly those names.
C25_ForcedLoadsReported ==
  \A m \in Models :
    (plugin.nodeEnv # "production" /\ ForcedNames(m) # {}) =>
      \E i \in 1..Len(log[m].console) : SeqToSet(log[m].console[i]) = ForcedNames(m)

\* The names that the call is to hand to the handler, and a record with no
\* attribute and no relation.
Due(m) == IF Toggle THEN Requested(m) ELSE Requested(m) \cap UltimatelyVisible(m)
GenuinelyEmpty(m) ==
  DOMAIN attributes[m] = {} /\ \A n \in RelationNames : ~relations[m][n].loaded

\* C26: a call that waits for its relations has skipped the ensuring exactly
\* when its record has no attribute and no relation; for any other record,
\* one without attributes but with a populated relation included, the handler
\* has been invoked for the names that are due.
C26_SkippedOnlyWhenEmpty ==
  \A m \in Models :
    (pc[m] = "ensure" /\ LoadsComplete(m) /\ Loads(m) = {}) =>
      IF GenuinelyEmpty(m) THEN Handled(m) = {} ELSE Handled(m) = Due(m)

\* The error of a handler that failed by itself, no load having failed.
LoaderError == "ReferenceError: BluebirdPromise is not defined"

\* C27: the default handler, for every name it is given, either finds the
\* relation populated and starts no load, or starts a load; and it does not
\* fail by itself in either case.
C27_DefaultLoaderSucceeds ==
  \A m \in Models :
    (plugin.handleEnsureRelation = "default" /\ Handled(m) # {}) =>
      /\ call[m].error # LoaderError
      /\ \A n \in Handled(m) : n \in Loads(m) \/ relations[m][n].loaded \/ n \in log[m].deleted

\* C28: every attribute of a model whose name is in the ultimately visible
\* list is in the object that toJSON resolves to, with the value that the
\* model holds, whatever that value is; and the attribute that a handler set
\* during the call is in the object with the value set, when visible.
C28_AttributesVerbatim ==
  \A m \in Models : ResolvedObject(m) =>
    /\ \A a \in (DOMAIN attributes[m]) \cap UltimatelyVisible(m) :
         /\ a \in DOMAIN result[m].attributes
         /\ result[m].attributes[a] = attributes[m][a]
    /\ (plugin.handleEnsureRelation = "setter" /\ Handled(m) # {}
          /\ "artistName" \in UltimatelyVisible(m)) =>
         /\ "artistName" \in DOMAIN result[m].attributes
         /\ result[m].attributes["artistName"] = BobDylan

\* The part of C28 that the code keeps: a handler has set an attribute during
\* the call and the object holds it, and every visible attribute but one
\* holding an empty plain object is in the object unchanged.
C28_SetAttributeIncluded ==
  \E m \in Models :
    /\ ResolvedObject(m)
    /\ plugin.handleEnsureRelation = "setter"
    /\ "artistName" \notin DOMAIN AttributesOf(row[m])
    /\ "artistName" \in DOMAIN result[m].attributes
    /\ result[m].attributes["artistName"] = BobDylan

\* A call that has resolved to undefined, and what a model holds.
Absent(m) == pc[m] = "resolved" /\ result[m].kind = "undefined"
Record(m) ==
  <<row[m], attributes[m], relations[m], modelAccessor[m], accessedAsRelationChain[m]>>

\* C29: a toJSON call that resolves to undefined leaves its model as it was.
\* The handler was not invoked for it, no load was started and no relation
\* deleted; with an empty list for the role the designator was not invoked
\* either; and no step changes what the model holds while the call is before
\* its relations, when it resolves to undefined, or afterwards.
C29_AbsentLeavesRecord ==
  /\ [](\A m \in Models : Absent(m) =>
          /\ Handled(m) = {} /\ Loads(m) = {} /\ LoadsComplete(m)
          /\ log[m].deleted = {}
          /\ RoleVisible(m) = {} => log[m].contextDesignator = <<>>)
  /\ [][\A m \in Models :
          (pc'[m] \in {"role", "context"} \/ Absent(m)') => Record(m)' = Record(m)]_vars

\* The context-specific list has left nothing of the role's list: the call
\* has resolved to undefined after the designator was invoked, names were
\* requested, and the relation the model held before the call is still there.
C29_Witness ==
  \E m \in Models : \E n \in RelationNames :
    /\ Absent(m)
    /\ RoleVisible(m) # {}
    /\ log[m].contextDesignator # <<>>
    /\ Requested(m) # {}
    /\ relations[m][n].loaded
    /\ relations[m][n].models # <<>>

\* How many times a name is in a list.
Occurrences(list, n) == Cardinality({i \in 1..Len(list) : list[i] = n})

\* C30: within one toJSON call the handler is invoked at most once for a
\* relation name and at most one load is started for it, whatever the toggle
\* and however often the requested list names the relation; two loads of one
\* relation of one model are never in flight together.
C30_HandledOncePerName ==
  \A m \in Models : \A n \in RelationNames :
    /\ Occurrences(log[m].handleEnsureRelation, n) <= 1
    /\ Occurrences(log[m].load, n) <= 1
    /\ call[m].pending[n] <= 1


====
